---------------------------- MODULE Spec2Model ----------------------------
(***************************************************************************)
(* A model of src/src/stl-validator.py: the STL validator (format          *)
(* detector, binary record validator, ASCII grammar validator, diagnostic  *)
(* counters and the orchestrator validate_stl_file).                       *)
(*                                                                         *)
(* A file is the sequence of its bytes (integers 0..255).  Text is a       *)
(* sequence of characters (Unicode code points).  A Python float is an     *)
(* IEEE-754 double: NaN, an infinity, or a sign, a significand and a       *)
(* binary exponent; every operation rounds as the double arithmetic does.  *)
(***************************************************************************)
EXTENDS Integers, Sequences, FiniteSets, TLC

VARIABLES
    input,                    \* how the file on disk was built (see Inputs)
    file,                     \* the bytes of the file on disk
    strict_mode,              \* global strict_mode (line 20, cleared by --tolerant)
    output_detailed_warnings, \* global output_detailed_warnings (line 27, --warnings)
    warning_count,            \* global warning_count (line 24)
    error_count,              \* global error_count (line 25)
    first_error_message,      \* global first_error_message (line 26)
    line_index,               \* global line_index (line 78)
    lines,                    \* global lines (line 79)
    pc,                       \* position inside validate_stl_file
    version,                  \* local version of validate_stl_file
    triangle_count,           \* local triangle_count of validate_binary_stl_file
    i,                        \* loop variable i of validate_binary_stl_file
    solid_name,               \* local solid_name of validate_ascii_stl_file
    total_facet_count,        \* local total_facet_count of validate_ascii_stl_file
    facets_done,              \* iterations of the facet loop completed
    events,                   \* the handler calls of the current validate_stl_file call
    outcomes                  \* what each completed validate_stl_file call produced

vars == <<input, file, strict_mode, output_detailed_warnings, warning_count,
          error_count, first_error_message, line_index, lines, pc, version,
          triangle_count, i, solid_name, total_facet_count, facets_done,
          events, outcomes>>

(***************************************************************************)
(* Python values.                                                          *)
(***************************************************************************)
ERROR == TRUE
WARNING == FALSE
SUCCESS_CODE == 0
ERROR_CODE == 1

Min(a, b) == IF a < b THEN a ELSE b
Max(a, b) == IF a < b THEN b ELSE a

(***************************************************************************)
(* Natural numbers of any size, for the 53-bit significands of Python's    *)
(* floats and the integers a decimal token writes: the digits in base      *)
(* 2^15, least significant first, the most significant one not 0; <<>> is  *)
(* zero.  Bits are counted from 1, the least significant.                  *)
(***************************************************************************)
\* Pow2[p] = 2^(p-1), Pow10[p] = 10^(p-1)
Pow2 == <<1, 2, 4, 8, 16, 32, 64, 128, 256, 512, 1024, 2048, 4096, 8192, 16384,
          32768, 65536, 131072, 262144, 524288, 1048576, 2097152, 4194304,
          8388608, 16777216, 33554432, 67108864, 134217728, 268435456,
          536870912, 1073741824>>
Pow10 == <<1, 10, 100, 1000, 10000>>
B_base == Pow2[16]

\* the positions of t that hold a non-zero digit, in order
B_nonzero(t) == SelectSeq([p \in 1..Len(t) |-> p], LAMBDA p : t[p] # 0)

\* t up to the last of the positions nz
B_keep(t, nz) == IF nz = <<>> THEN <<>> ELSE SubSeq(t, 1, nz[Len(nz)])

\* x without its leading zeros
B_trim(x) == B_keep(<<>> \o x, B_nonzero(<<>> \o x))

\* a number below 2^31
B_of(n) == B_trim(<<n % B_base, (n \div B_base) % B_base, n \div (B_base * B_base)>>)

B_limb(x, p) == IF 1 <= p /\ p <= Len(x) THEN x[p] ELSE 0

\* the number of bits of x, and bit p of x
B_len(x) ==
    IF x = <<>> THEN 0
    ELSE 15 * (Len(x) - 1) + Cardinality({p \in 1..15 : Pow2[p] <= x[Len(x)]})
B_bit(x, p) ==
    IF p < 1 THEN 0
    ELSE (B_limb(x, (p - 1) \div 15 + 1) \div Pow2[((p - 1) % 15) + 1]) % 2

\* the number of zero bits below the lowest 1 of x (x # 0)
B_tz(x) ==
    15 * (B_nonzero(x)[1] - 1)
      + Cardinality({p \in 1..15 : (x[B_nonzero(x)[1]] % Pow2[p + 1]) = 0})

\* the carry into digit p of x + y: a digit below p overflows and every digit
\* between passes the carry on
B_carry(x, y, p) ==
    IF \E q \in 1..(p - 1) :
         /\ B_limb(x, q) + B_limb(y, q) >= B_base
         /\ \A r \in (q + 1)..(p - 1) : B_limb(x, r) + B_limb(y, r) = B_base - 1
    THEN 1 ELSE 0

B_add(x, y) ==
    B_trim([p \in 1..(Max(Len(x), Len(y)) + 1) |->
              (B_limb(x, p) + B_limb(y, p) + B_carry(x, y, p)) % B_base])

\* the borrow from digit p of x - y
B_borrow(x, y, p) ==
    IF \E q \in 1..(p - 1) :
         /\ B_limb(x, q) < B_limb(y, q)
         /\ \A r \in (q + 1)..(p - 1) : B_limb(x, r) = B_limb(y, r)
    THEN 1 ELSE 0

\* x - y when x >= y
B_sub(x, y) ==
    B_trim([p \in 1..Len(x) |->
              (B_base + x[p] - B_limb(y, p) - B_borrow(x, y, p)) % B_base])

B_less(x, y) ==
    \/ Len(x) < Len(y)
    \/ /\ Len(x) = Len(y)
       /\ \E p \in 1..Len(x) : /\ x[p] < y[p]
                               /\ \A q \in (p + 1)..Len(x) : x[q] = y[q]

\* x * 2^b and x \div 2^b for b < 15
B_shl_bits(x, b) ==
    B_trim([p \in 1..(Len(x) + 1) |->
              (B_limb(x, p) % Pow2[16 - b]) * Pow2[b + 1]
                + B_limb(x, p - 1) \div Pow2[16 - b]])
B_shr_bits(x, b) ==
    B_trim([p \in 1..Len(x) |->
              x[p] \div Pow2[b + 1] + (B_limb(x, p + 1) % Pow2[b + 1]) * Pow2[16 - b]])

\* x * 2^n and x \div 2^n
B_shl(x, n) ==
    IF x = <<>> THEN <<>> ELSE [p \in 1..(n \div 15) |-> 0] \o B_shl_bits(x, n % 15)
B_shr(x, n) == B_shr_bits(SubSeq(x, n \div 15 + 1, Len(x)), n % 15)

\* x * k for k <= 2^15: the low and the high halves of the digit products
B_mul_small(x, k) ==
    B_add(<<>> \o [p \in 1..Len(x) |-> (x[p] * k) % B_base],
          <<0>> \o [p \in 1..Len(x) |-> (x[p] * k) \div B_base])

\* x times the number the digits of y from q on write
RECURSIVE B_mul_from(_, _, _)
B_mul_from(x, y, q) ==
    IF q > Len(y) THEN <<>>
    ELSE B_add(B_mul_small(x, y[q]), B_shl(B_mul_from(x, y, q + 1), 15))

B_mul(x, y) == IF x = <<>> THEN <<>> ELSE B_mul_from(x, y, 1)

\* x * 10^n, a half of the factors at a time
RECURSIVE B_mul10s(_, _)
B_mul10s(x, n) ==
    IF x = <<>> \/ n = 0 THEN x
    ELSE IF n <= 4 THEN B_mul_small(x, Pow10[n + 1])
    ELSE B_mul10s(B_mul10s(x, n \div 2), n - n \div 2)

\* long division of x by k <= 10^4, a half of the digits at a time: acc.q the
\* quotient of the digits above hi (most significant first) and acc.r their
\* remainder, which is below k; the same for the digits above lo
RECURSIVE B_div_range(_, _, _, _, _)
B_div_range(x, k, lo, hi, acc) ==
    IF lo > hi \/ acc.r >= k THEN acc
    ELSE IF lo = hi
         THEN [q |-> acc.q \o <<(acc.r * B_base + x[lo]) \div k>>,
               r |-> (acc.r * B_base + x[lo]) % k]
    ELSE B_div_range(x, k, lo, (lo + hi) \div 2,
                     B_div_range(x, k, (lo + hi) \div 2 + 1, hi, acc))

\* d.q least significant digit first, and whether a remainder was dropped
B_div_done(d, sticky) ==
    [q |-> B_trim([p \in 1..Len(d.q) |-> d.q[Len(d.q) + 1 - p]]),
     sticky |-> sticky \/ d.r # 0]

\* one more division of r.q, by k; r.sticky whether a non-zero remainder was
\* dropped so far
B_div_step(r, k) ==
    B_div_done(B_div_range(r.q, k, 1, Len(r.q), [q |-> <<>>, r |-> 0]), r.sticky)

\* x \div 10^n and whether x % 10^n # 0, from r = [q |-> x, sticky |-> FALSE]
RECURSIVE B_div10s(_, _)
B_div10s(r, n) ==
    IF r.q = <<>> \/ n = 0 THEN r
    ELSE IF n <= 4 THEN B_div_step(r, Pow10[n + 1])
    ELSE B_div10s(B_div10s(r, n \div 2), n - n \div 2)

\* x \div 2^d rounded to the nearest, a tie to the even one (d >= 1)
B_round_shift(x, d) ==
    IF B_bit(x, d) = 1 /\ (B_bit(x, d + 1) = 1 \/ \E p \in 1..(d - 1) : B_bit(x, p) = 1)
    THEN B_add(B_shr(x, d), <<1>>)
    ELSE B_shr(x, d)

(***************************************************************************)
(* Python floats (IEEE-754 doubles): NaN, an infinity of sign s, or the    *)
(* finite s * m * 2^e with s the sign (1 or -1), m odd or zero; a zero has *)
(* e = 0.  Each operation rounds the exact result to 53 significant bits   *)
(* (fewer below 2^-1022), a tie to even, and overflows to an infinity.     *)
(***************************************************************************)
NaN == [k |-> "nan", s |-> 1, m |-> <<>>, e |-> 0]
Inf(s) == [k |-> "inf", s |-> s, m |-> <<>>, e |-> 0]
Fin(s, m, e) == [k |-> "fin", s |-> s, m |-> m, e |-> e]

\* s * m * 2^e written with m odd
F_canon(s, m, e) ==
    IF m = <<>> THEN Fin(s, <<>>, 0) ELSE Fin(s, B_shr(m, B_tz(m)), e + B_tz(m))

\* s * m * 2^e when m has at most 53 bits and e >= -1074
F_fit(s, m, e) == IF B_len(m) + e > 1024 THEN Inf(s) ELSE F_canon(s, m, e)

\* the double nearest to s * m * 2^e, a multiple of 2^e2
F_round_to(s, m, e, e2) ==
    IF e2 <= e THEN F_fit(s, m, e) ELSE F_fit(s, B_round_shift(m, e2 - e), e2)

\* the double nearest to s * m * 2^e
F_round(s, m, e) == F_round_to(s, m, e, Max(e + B_len(m) - 53, 0 - 1074))

\* the double nearest to a value strictly between m and m + 1 times 2^e when
\* sticky, to m * 2^e otherwise (m of 55 bits or more)
F_round_sticky(s, m, e, sticky) ==
    F_round(s, B_add(B_shl(m, 1), IF sticky THEN <<1>> ELSE <<>>), e - 1)

\* s * r.q * 2^e, a little more when r.sticky
F_round_quotient(s, r, e) == F_round_sticky(s, r.q, e, r.sticky)

\* -x
F_neg(x) == IF x.k = "nan" THEN NaN ELSE [x EXCEPT !.s = 0 - @]

\* sx * mx * 2^e + sy * my * 2^e, rounded
F_add_aligned(sx, mx, sy, my, e) ==
    IF sx = sy THEN F_round(sx, B_add(mx, my), e)
    ELSE IF mx = my THEN Fin(1, <<>>, 0)
    ELSE F_round(IF B_less(mx, my) THEN sy ELSE sx,
                 IF B_less(mx, my) THEN B_sub(my, mx) ELSE B_sub(mx, my), e)

\* x + y of two finite values: x when y is too small to reach the rounding
\* of x, else the exact sum, rounded
F_add_fin(x, y) ==
    IF x.m = <<>> /\ y.m = <<>> THEN Fin(IF x.s = y.s THEN x.s ELSE 1, <<>>, 0)
    ELSE IF x.m = <<>> THEN y
    ELSE IF y.m = <<>> THEN x
    ELSE IF x.e > y.e + B_len(y.m) + 64 THEN x
    ELSE IF y.e > x.e + B_len(x.m) + 64 THEN y
    ELSE F_add_aligned(x.s, B_shl(x.m, x.e - Min(x.e, y.e)),
                       y.s, B_shl(y.m, y.e - Min(x.e, y.e)), Min(x.e, y.e))

\* x + y
F_add(x, y) ==
    IF x.k = "nan" \/ y.k = "nan" THEN NaN
    ELSE IF x.k = "inf" /\ y.k = "inf" THEN (IF x.s = y.s THEN x ELSE NaN)
    ELSE IF x.k = "inf" THEN x
    ELSE IF y.k = "inf" THEN y
    ELSE F_add_fin(x, y)

\* x - y
F_sub(x, y) == F_add(x, F_neg(y))

\* x * y
F_mul(x, y) ==
    IF x.k = "nan" \/ y.k = "nan" THEN NaN
    ELSE IF x.k = "inf" \/ y.k = "inf"
         THEN (IF (x.k = "fin" /\ x.m = <<>>) \/ (y.k = "fin" /\ y.m = <<>>)
               THEN NaN ELSE Inf(x.s * y.s))
    ELSE F_round(x.s * y.s, B_mul(x.m, y.m), x.e + y.e)

\* x < 0, x > 0, math.isnan(x): every comparison with NaN is False
F_lt0(x) == x.s = -1 /\ (x.k = "inf" \/ (x.k = "fin" /\ x.m # <<>>))
F_gt0(x) == x.s = 1 /\ (x.k = "inf" \/ (x.k = "fin" /\ x.m # <<>>))
F_isnan(x) == x.k = "nan"

(***************************************************************************)
(* GEOMETRY FUNCTIONS                                                      *)
(***************************************************************************)
\* sum(...) starts from the integer 0
RECURSIVE sum_products(_, _, _, _)
sum_products(v1, v2, p, acc) ==
    IF p > Min(Len(v1), Len(v2)) THEN acc
    ELSE sum_products(v1, v2, p + 1, F_add(acc, F_mul(v1[p], v2[p])))

dot_product(v1, v2) == sum_products(v1, v2, 1, Fin(1, <<>>, 0))

\* component c is v1[c + 1] * v2[c + 2] - v1[c + 2] * v2[c + 1], the indices
\* taken around 1, 2, 3
cross_product(v1, v2) ==
    <<>> \o [c \in 1..3 |->
              F_sub(F_mul(v1[(c % 3) + 1], v2[((c + 1) % 3) + 1]),
                    F_mul(v1[((c + 1) % 3) + 1], v2[(c % 3) + 1]))]

\* [to[i] - from[i] for i in range(3)]
edge(from, to) == <<>> \o [c \in 1..3 |-> F_sub(to[c], from[c])]

is_counterclockwise(vertex1, vertex2, vertex3, normal) ==
    F_gt0(dot_product(cross_product(edge(vertex1, vertex2), edge(vertex1, vertex3)),
                      normal))

(***************************************************************************)
(* Reading bytes: file.read and struct.unpack                              *)
(***************************************************************************)
\* file.read(n) at the 0-based offset pos: at most n bytes, fewer at the end
read(f, pos, n) == SubSeq(f, pos + 1, Min(pos + n, Len(f)))

\* the four bytes read in big-endian order
unpack_I_bigendian(b) == b[4] + 256 * b[3] + 65536 * b[2] + 16777216 * b[1]

\* struct.unpack('<I', b)[0] of four bytes
unpack_I(b) == b[1] + 256 * b[2] + 65536 * b[3] + 16777216 * b[4]

\* struct.unpack('<H', b)[0] of two bytes
unpack_H(b) == b[1] + 256 * b[2]

\* struct.unpack('<f', b)[0]: little-endian IEEE-754 single precision, every
\* value of which a double holds exactly
unpack_f(b) ==
    LET s == IF b[4] \div 128 = 1 THEN -1 ELSE 1
        e == (b[4] % 128) * 2 + b[3] \div 128
        frac == (b[3] % 128) * 65536 + b[2] * 256 + b[1]
    IN IF e = 255 THEN (IF frac = 0 THEN Inf(s) ELSE NaN)
       ELSE IF e = 0 THEN F_canon(s, B_of(frac), 0 - 149)
       ELSE F_canon(s, B_of(8388608 + frac), e - 150)

\* struct.unpack('<3f', b) of twelve bytes
unpack_3f(b) == << unpack_f(SubSeq(b, 1, 4)), unpack_f(SubSeq(b, 5, 8)),
                   unpack_f(SubSeq(b, 9, 12)) >>

(***************************************************************************)
(* is_binary_stl, lines 143-152.  The result is "struct.error" handled as  *)
(* False.  A count whose last byte is 128 or more is 2^31 or more, and     *)
(* 50 * triangle_count exceeds file_size whenever triangle_count does:     *)
(* the first two conjuncts change nothing, they keep the count and the     *)
(* product inside the model checker's integers.                            *)
(***************************************************************************)
is_binary_stl(f) ==
    LET file_size == Len(f)
        count_bytes == read(f, 80, 4)
    IN IF Len(count_bytes) # 4 THEN FALSE
       ELSE /\ count_bytes[4] < 128
            /\ unpack_I(count_bytes) <= file_size
            /\ 80 + 4 + 50 * unpack_I(count_bytes) = file_size

(***************************************************************************)
(* Text: str.strip, re.sub(r'\s+', ' ', ...), readlines, split, the float  *)
(* pattern of lines 232 and 248, and float().                              *)
(***************************************************************************)
\* the characters str.strip, str.split and \s take for whitespace
IsSpace(c) ==
    IF c < 128 THEN c \in 9..13 \/ c \in 28..32
    ELSE c \in {133, 160, 5760, 8232, 8233, 8239, 8287, 12288} \/ c \in 8192..8202

\* the characters \d and float take for decimal digits come in blocks of ten,
\* 0 to 9 in order; the first character of each block (Unicode 14)
DigitZeros ==
    {48, 1632, 1776, 1984, 2406, 2534, 2662, 2790, 2918, 3046, 3174, 3302,
     3430, 3558, 3664, 3792, 3872, 4160, 4240, 6112, 6160, 6470, 6608, 6784,
     6800, 6992, 7088, 7232, 7248, 42528, 43216, 43264, 43472, 43504, 43600,
     44016, 65296, 66720, 68912, 69734, 69872, 69942, 70096, 70384, 70736,
     70864, 71248, 71360, 71472, 71904, 72016, 72784, 73040, 73120, 92768,
     92864, 93008, 120782, 120792, 120802, 120812, 120822, 123200, 123632,
     125264, 130032}

IsDigit(c) == IF c < 128 THEN c \in 48..57 ELSE \E z \in DigitZeros : c \in z..(z + 9)

\* the least element of a non-empty set of integers
Least(S) == CHOOSE p \in S : \A q \in S : p <= q

\* s.strip()
strip(s) ==
    LET ink == {p \in 1..Len(s) : ~ IsSpace(s[p])}
    IN IF ink = {} THEN <<>>
       ELSE SubSeq(s, Least(ink), CHOOSE p \in ink : \A q \in ink : q <= p)

\* re.sub(r'\s+', ' ', s): every run of whitespace becomes one space
collapse_spaces(s) ==
    LET marked == [p \in 1..Len(s) |->
                     [c |-> IF IsSpace(s[p]) THEN 32 ELSE s[p],
                      drop |-> IsSpace(s[p]) /\ p > 1 /\ IsSpace(s[p - 1])]]
        kept == SelectSeq(marked, LAMBDA x : ~ x.drop)
    IN [p \in 1..Len(kept) |-> kept[p].c]

\* the list comprehension of line 208 applied to one line
normalize_line(line) == collapse_spaces(strip(line))

\* open(target, 'r').readlines(): the text from offset s (1-based) on, cut after
\* each line end; universal newlines turn \r and \r\n into \n
RECURSIVE readlines_from(_, _)
readlines_from(t, s) ==
    IF s > Len(t) THEN <<>>
    ELSE LET ends == {p \in s..Len(t) : t[p] \in {10, 13}}
             e == IF ends = {} THEN Len(t) + 1 ELSE Least(ends)
             nxt == IF e < Len(t) /\ t[e] = 13 /\ t[e + 1] = 10 THEN e + 2 ELSE e + 1
         IN <<SubSeq(t, s, e - 1) \o (IF ends = {} THEN <<>> ELSE <<10>>)>>
              \o readlines_from(t, nxt)

\* open(target, 'r') decodes the bytes as UTF-8 (the locale's encoding),
\* errors 'strict'.  The byte at offset p, -1 past the end:
byte_at(f, p) == IF p <= Len(f) THEN f[p] ELSE -1

\* whether the byte at offset p continues a character
continues(f, p) == byte_at(f, p) \in 128..191

\* the number of bytes of the character that starts at offset p, 0 when no
\* well-formed character starts there
utf8_length(f, p) ==
    IF f[p] < 128 THEN 1
    ELSE IF f[p] \in 194..223 THEN (IF continues(f, p + 1) THEN 2 ELSE 0)
    ELSE IF f[p] \in 224..239
         THEN (IF /\ continues(f, p + 1) /\ continues(f, p + 2)
                  /\ f[p] = 224 => f[p + 1] >= 160
                  /\ f[p] = 237 => f[p + 1] < 160
               THEN 3 ELSE 0)
    ELSE IF f[p] \in 240..244
         THEN (IF /\ continues(f, p + 1) /\ continues(f, p + 2) /\ continues(f, p + 3)
                  /\ f[p] = 240 => f[p + 1] >= 144
                  /\ f[p] = 244 => f[p + 1] < 144
               THEN 4 ELSE 0)
    ELSE 0

\* the character that starts at offset p
utf8_char(f, p) ==
    IF f[p] < 128 THEN f[p]
    ELSE IF f[p] < 224 THEN (f[p] % 32) * 64 + (f[p + 1] % 64)
    ELSE IF f[p] < 240
         THEN (f[p] % 16) * 4096 + (f[p + 1] % 64) * 64 + (f[p + 2] % 64)
    ELSE (f[p] % 8) * 262144 + (f[p + 1] % 64) * 4096
           + (f[p + 2] % 64) * 64 + (f[p + 3] % 64)

\* the offsets where a character starts when the bytes decode: those of the
\* bytes that continue no character
utf8_starts(f) == SelectSeq([p \in 1..Len(f) |-> p], LAMBDA p : f[p] \notin 128..191)

\* whether a well-formed character starts at each of the offsets and ends
\* where the next one starts
well_formed_at(f, starts) ==
    \A k \in 1..Len(starts) :
      /\ utf8_length(f, starts[k]) > 0
      /\ byte_at(f, starts[k] + utf8_length(f, starts[k])) \notin 128..191

\* whether the bytes decode (no UnicodeDecodeError)
decodes(f) == (f # <<>> => f[1] \notin 128..191) /\ well_formed_at(f, utf8_starts(f))

\* the characters that start at the offsets
chars_at(f, starts) == [k \in 1..Len(starts) |-> utf8_char(f, starts[k])]

\* the characters the bytes decode to
decode(f) == <<>> \o chars_at(f, utf8_starts(f))

\* s.split() of a line: the maximal runs of non-whitespace from offset s on
RECURSIVE split_from(_, _)
split_from(t, s) ==
    LET ink == {p \in s..Len(t) : ~ IsSpace(t[p])}
    IN IF ink = {} THEN <<>>
       ELSE LET b == Least(ink)
                sp == {p \in b..Len(t) : IsSpace(t[p])}
                e == IF sp = {} THEN Len(t) + 1 ELSE Least(sp)
            IN <<SubSeq(t, b, e - 1)>> \o split_from(t, e)

split(t) == split_from(t, 1)

startswith(s, prefix) ==
    Len(s) >= Len(prefix) /\ SubSeq(s, 1, Len(prefix)) = prefix

\* the first offset at or after p that holds no digit
SkipDigits(t, p) ==
    LET nd == {q \in p..Len(t) : ~ IsDigit(t[q])}
    IN IF nd = {} THEN Len(t) + 1 ELSE Least(nd)

\* where a match of -?\d*(\.\d+)?([Ee][+-]?\d+)? that starts at p ends
\* (\.\d+)? at b: where it ends
fraction_end(t, b) ==
    IF b <= Len(t) /\ t[b] = 46 /\ SkipDigits(t, b + 1) > b + 1
    THEN SkipDigits(t, b + 1) ELSE b

\* [Ee][+-]? at c: where the digits of the exponent start
exponent_digits(t, c) ==
    IF c + 1 <= Len(t) /\ t[c + 1] \in {43, 45} THEN c + 2 ELSE c + 1

\* ([Ee][+-]?\d+)? at c with its digits from x on: where it ends
exponent_end(t, c, x) ==
    IF c <= Len(t) /\ t[c] \in {69, 101} /\ SkipDigits(t, x) > x
    THEN SkipDigits(t, x) ELSE c

optional_exponent_end(t, c) == exponent_end(t, c, exponent_digits(t, c))

float_pattern_end(t, p) ==
    optional_exponent_end(
        t, fraction_end(t, SkipDigits(t, IF p <= Len(t) /\ t[p] = 45 THEN p + 1 ELSE p)))

\* a float pattern ended at e: " F" n times and $ follow; $ also matches
\* before a final newline
RECURSIVE floats_follow(_, _, _)
floats_follow(line, e, n) ==
    IF n = 0 THEN e = Len(line) + 1 \/ (e = Len(line) /\ line[e] = 10)
    ELSE /\ e <= Len(line) /\ line[e] = 32
         /\ floats_follow(line, float_pattern_end(line, e + 1), n - 1)

\* re.search("^<keyword> F F F$", line), F the float pattern
matches_three_floats(keyword, line) ==
    /\ startswith(line, keyword)
    /\ floats_follow(line, float_pattern_end(line, Len(keyword) + 1), 2)

\* the value of a decimal digit: its offset in its block of ten
DigitValue(c) ==
    IF c < 128 THEN c - 48 ELSE c - (CHOOSE z \in DigitZeros : c \in z..(z + 9))

\* the number a sequence of decimal digits writes
RECURSIVE DigitsValue(_)
DigitsValue(ds) ==
    IF ds = <<>> THEN <<>>
    ELSE IF Len(ds) = 1 THEN B_of(DigitValue(ds[1]))
    ELSE B_add(B_mul10s(DigitsValue(SubSeq(ds, 1, Len(ds) \div 2)),
                        Len(ds) - Len(ds) \div 2),
               DigitsValue(SubSeq(ds, Len(ds) \div 2 + 1, Len(ds))))

\* the number the digits of an exponent write, or 999999 if that is less: from
\* 309 on the float is an infinity or zero whatever the exponent is
RECURSIVE ExponentValue(_, _)
ExponentValue(ds, acc) ==
    IF ds = <<>> THEN acc
    ELSE ExponentValue(Tail(ds), Min(999999, 10 * acc + DigitValue(ds[1])))

\* the double nearest to s * m / 10^n: the quotient of m * 2^bits by 10^n,
\* which has 56 bits or more, and whether a remainder was dropped
decimal_quotient(s, m, n, bits) ==
    F_round_quotient(s, B_div10s([q |-> B_shl(m, bits), sticky |-> FALSE], n),
                     0 - bits)

\* the double nearest to s * m * 10^ex, nd the count of decimal digits of m:
\* an infinity from 10^309 on, zero below 10^-324, else computed exactly
decimal_to_float(s, m, nd, ex) ==
    IF m = <<>> THEN Fin(s, <<>>, 0)
    ELSE IF ex >= 309 THEN Inf(s)
    ELSE IF ex + nd <= 0 - 324 THEN Fin(s, <<>>, 0)
    ELSE IF ex >= 0 THEN F_round(s, B_mul10s(m, ex), 0)
    ELSE decimal_quotient(s, m, 0 - ex, B_len(B_mul10s(<<1>>, 0 - ex)) + 56)

\* float(t) of a token the float pattern matches: ValueError when the token
\* has no digit before its exponent
ValueError == [k |-> "ValueError", s |-> 1, m |-> <<>>, e |-> 0]

\* the token t with its digits from a to b - 1 and its fraction from b to c - 1
float_parts(t, a, b, c) ==
    LET sign == IF a = 2 THEN -1 ELSE 1
        digits == SubSeq(t, a, b - 1) \o SubSeq(t, b + 1, c - 1)
        fdigits == IF c > b THEN c - b - 1 ELSE 0
        x == IF c + 1 <= Len(t) /\ t[c + 1] \in {43, 45} THEN c + 2 ELSE c + 1
        ex == IF c <= Len(t)
              THEN (IF t[c + 1] = 45 THEN -1 ELSE 1)
                     * ExponentValue(SubSeq(t, x, Len(t)), 0)
              ELSE 0
    IN IF b = a /\ c = b THEN ValueError
       ELSE decimal_to_float(sign, DigitsValue(digits), Len(digits), ex - fdigits)

float_digits(t, a, b) == float_parts(t, a, b, fraction_end(t, b))

float(t) ==
    float_digits(t, IF 1 <= Len(t) /\ t[1] = 45 THEN 2 ELSE 1,
                 SkipDigits(t, IF 1 <= Len(t) /\ t[1] = 45 THEN 2 ELSE 1))

(***************************************************************************)
(* The diagnostic counters and the handlers, lines 81-117.                 *)
(*                                                                         *)
(* The operators below thread a record m through the statements of a       *)
(* function: the globals error_count, warning_count and line_index, the    *)
(* handler calls made so far, and the exception that is propagating, if    *)
(* any.  Once an exception propagates, no further statement has an effect. *)
(***************************************************************************)
\* the text of a diagnostic: "Error on <where> <at>: Expected '<expected>' but
\* got '<got.strip()>'." when `if got:` holds (got is neither None nor empty;
\* a got of whitespace only gives "but got ''"), "Error on <where> <at>:
\* <expected>." otherwise; arg is what the expected text was formatted with
Message(where, at, expected, arg, got) ==
    [where |-> where, at |-> at, expected |-> expected, arg |-> arg,
     given |-> got # <<>>, got |-> strip(got)]

NoMessage == Message("", 0, "", <<>>, <<>>)

NoException == [type |-> "", message |-> NoMessage]

Raised(m) == m.raised.type # ""

raise(m, type, message) ==
    [m EXCEPT !.raised = [type |-> type, message |-> message]]

Event(type, message) ==
    [type |-> IF type = ERROR THEN "ERROR" ELSE "WARNING", message |-> message,
     printed |-> type = ERROR \/ output_detailed_warnings]

\* a handler that counts the error and carries on
handle_error_with_line_index_no_raise(m, type, expected, arg, got) ==
    IF Raised(m) THEN m
    ELSE LET message == Message("line", m.line_index + 1, expected, arg, got)
         IN IF type = ERROR
            THEN [m EXCEPT !.error_count = @ + 1,
                           !.events = Append(@, Event(type, message))]
            ELSE [m EXCEPT !.warning_count = @ + 1,
                           !.events = Append(@, Event(type, message))]

handle_error_with_line_index(m, type, expected, arg, got) ==
    IF Raised(m) THEN m
    ELSE LET message == Message("line", m.line_index + 1, expected, arg, got)
         IN IF type = ERROR
            THEN [m EXCEPT !.error_count = @ + 1,
                           !.events = Append(@, Event(type, message)),
                           !.raised = [type |-> "STLValidatorException",
                                       message |-> message]]
            ELSE [m EXCEPT !.warning_count = @ + 1,
                           !.events = Append(@, Event(type, message))]

\* a handler that counts a warning only when it prints it
handle_error_with_file_pos_count_if_printed(m, type, pos, expected, arg, got) ==
    IF Raised(m) THEN m
    ELSE LET message == Message("position", pos, expected, arg, got)
         IN IF type = ERROR
            THEN [m EXCEPT !.error_count = @ + 1,
                           !.events = Append(@, Event(type, message)),
                           !.raised = [type |-> "STLValidatorException",
                                       message |-> message]]
            ELSE IF output_detailed_warnings
            THEN [m EXCEPT !.warning_count = @ + 1,
                           !.events = Append(@, Event(type, message))]
            ELSE m

handle_error_with_file_pos(m, type, pos, expected, arg, got) ==
    IF Raised(m) THEN m
    ELSE LET message == Message("position", pos, expected, arg, got)
         IN IF type = ERROR
            THEN [m EXCEPT !.error_count = @ + 1,
                           !.events = Append(@, Event(type, message)),
                           !.raised = [type |-> "STLValidatorException",
                                       message |-> message]]
            ELSE [m EXCEPT !.warning_count = @ + 1,
                           !.events = Append(@, Event(type, message))]

\* the severity of a soft violation: WARNING or strict_mode
soft_severity_always_warning == WARNING

soft_severity == WARNING \/ strict_mode

(***************************************************************************)
(* LINE FUNCTIONS, lines 120-139.  ls is the global lines.                 *)
(***************************************************************************)
\* lines[line_index] raises IndexError when line_index is not below len(lines)
line_in_range(m, ls) == m.line_index < Len(ls)

get_current_line(m, ls) == ls[m.line_index + 1]

\* the evaluation of get_current_line() as a statement: the IndexError
need_current_line(m, ls) ==
    IF Raised(m) \/ line_in_range(m, ls) THEN m
    ELSE raise(m, "IndexError", NoMessage)

RECURSIVE skip_empty_lines(_, _)
skip_empty_lines(m, ls) ==
    IF Raised(m) THEN m
    ELSE IF Len(ls) > m.line_index + 1 /\ strip(ls[m.line_index + 1]) = <<>>
    THEN skip_empty_lines(
            [handle_error_with_line_index(m, WARNING, "Line is empty", <<>>, <<>>)
                EXCEPT !.line_index = @ + 1], ls)
    ELSE m

init_line(m, ls) ==
    IF Raised(m) THEN m ELSE skip_empty_lines([m EXCEPT !.line_index = 0], ls)

go_to_next_line(m, ls) ==
    IF Raised(m) THEN m ELSE skip_empty_lines([m EXCEPT !.line_index = @ + 1], ls)

(***************************************************************************)
(* validate_binary_stl_file, lines 168-192: one iteration of the loop over *)
(* the records, for the record idx of the file f.                          *)
(***************************************************************************)
any_negative(coords) == \E c \in 1..Len(coords) : F_lt0(coords[c])

\* math.isnan never true
any_nan_never(coords) == FALSE

any_nan(coords) == \E c \in 1..Len(coords) : F_isnan(coords[c])

\* lines 175-179: the record idx decoded; "struct.error" when a read is short
record_at(f, idx) ==
    LET at == 84 + 50 * idx
    IN [complete |-> Len(read(f, at, 50)) = 50,
        normal |-> unpack_3f(read(f, at, 12)),
        vertex1 |-> unpack_3f(read(f, at + 12, 12)),
        vertex2 |-> unpack_3f(read(f, at + 24, 12)),
        vertex3 |-> unpack_3f(read(f, at + 36, 12)),
        attr_byte_count |-> unpack_H(read(f, at + 48, 2))]

\* lines 182-183
check_negative(m, rec, pos) ==
    IF any_negative(rec.vertex1 \o rec.vertex2 \o rec.vertex3)
    THEN handle_error_with_file_pos(m, soft_severity, pos,
           "Not all vertices of this facet have positive values", <<>>, <<>>)
    ELSE m

\* lines 185-186
check_winding(m, rec, pos) ==
    IF ~ is_counterclockwise(rec.vertex1, rec.vertex2, rec.vertex3, rec.normal)
    THEN handle_error_with_line_index(m, soft_severity,
           "Vertices of this facet are not ordered counterclockwise", <<>>, <<>>)
    ELSE m

\* lines 188-189
check_nan(m, rec, pos) ==
    IF any_nan(rec.normal \o rec.vertex1 \o rec.vertex2 \o rec.vertex3)
    THEN handle_error_with_file_pos(m, ERROR, pos,
           "File contains NaN values in normal or vertex coordinates", <<>>, <<>>)
    ELSE m

\* lines 191-192
check_attribute(m, rec, pos) ==
    IF rec.attr_byte_count # 0
    THEN handle_error_with_file_pos(m, ERROR, pos,
           "Attribute byte count should be '0', but got '{attr_byte_count}'",
           <<rec.attr_byte_count>>, <<>>)
    ELSE m

\* lines 180-192: the checks of a record, in the order of the code
check_record(m, rec, pos) ==
    check_attribute(check_nan(check_winding(check_negative(m, rec, pos), rec, pos),
                              rec, pos), rec, pos)

validate_binary_record(m, f, idx) ==
    IF Raised(m) THEN m
    ELSE IF Len(read(f, 84 + 50 * idx, 50)) # 50
    THEN raise(m, "struct.error", NoMessage)
    ELSE check_record(m, record_at(f, idx), 84 + idx * 50)

(***************************************************************************)
(* validate_ascii_stl_file, lines 205-275.                                 *)
(***************************************************************************)
kw_solid == <<115, 111, 108, 105, 100>>
kw_endsolid == <<101, 110, 100, 115, 111, 108, 105, 100>>
kw_facet_normal == <<102, 97, 99, 101, 116, 32, 110, 111, 114, 109, 97, 108, 32>>
kw_outer_loop == <<111, 117, 116, 101, 114, 32, 108, 111, 111, 112>>
kw_vertex == <<118, 101, 114, 116, 101, 120, 32>>
kw_endloop == <<101, 110, 100, 108, 111, 111, 112>>
kw_endfacet == <<101, 110, 100, 102, 97, 99, 101, 116>>

\* s.lstrip()
lstrip(s) ==
    LET ink == {p \in 1..Len(s) : ~ IsSpace(s[p])}
    IN IF ink = {} THEN <<>> ELSE SubSeq(s, Least(ink), Len(s))

\* line 208
read_lines(f) ==
    LET raw == readlines_from(decode(f), 1)
    IN [p \in 1..Len(raw) |-> normalize_line(raw[p])]

\* re.search("^solid [^\n]+$", line); $ also matches before a final newline
matches_solid_name(line) ==
    /\ startswith(line, kw_solid \o <<32>>)
    /\ LET last == IF line[Len(line)] = 10 THEN Len(line) - 1 ELSE Len(line)
       IN last >= 7 /\ \A p \in 7..last : line[p] # 10

\* list(map(float, tokens)): ValueError when a token is no float
floats(tokens) == <<>> \o [p \in 1..Len(tokens) |-> float(tokens[p])]

float_fails(values) == \E p \in 1..Len(values) : values[p].k = "ValueError"

\* line 212-213
check_solid(m, ls) ==
    IF Raised(m) \/ startswith(get_current_line(m, ls), kw_solid) THEN m
    ELSE handle_error_with_line_index(m, ERROR, "solid", <<>>,
                                      get_current_line(m, ls))

\* lines 214-218: m.solid_name is the local solid_name
check_solid_name(m, ls) ==
    IF Raised(m) THEN m
    ELSE IF ~ matches_solid_name(get_current_line(m, ls))
    THEN [handle_error_with_line_index(m, WARNING, "solid <string>", <<>>,
                                       get_current_line(m, ls))
            EXCEPT !.solid_name = <<>>]
    ELSE [m EXCEPT !.solid_name =
            lstrip(SubSeq(get_current_line(m, ls), 7, Len(get_current_line(m, ls))))]

\* lines 210-219: the header
ascii_header(m, ls) ==
    go_to_next_line(
        check_solid_name(
            check_solid(need_current_line(init_line(m, ls), ls), ls), ls), ls)

\* line 226, with a divisor of 8
facet_count_div8(ls) ==
    (Len(SelectSeq(ls, LAMBDA line : strip(line) # <<>>)) - 2) \div 8

\* line 226
facet_count(ls) ==
    (Len(SelectSeq(ls, LAMBDA line : strip(line) # <<>>)) - 2) \div 7

\* `if not keyword == get_current_line(): handle_error...(ERROR, ...)`
check_keyword(m, ls, keyword, expected) ==
    IF Raised(m) \/ keyword = get_current_line(m, ls) THEN m
    ELSE handle_error_with_line_index(m, ERROR, expected, <<>>,
                                      get_current_line(m, ls))

\* a line that must equal a keyword: lines 236-238, 264-266, 267-269
expect_line(m, ls, keyword, expected) ==
    go_to_next_line(check_keyword(need_current_line(m, ls), ls, keyword, expected),
                    ls)

\* lines 232-233
check_facet_normal(m, ls) ==
    IF Raised(m) \/ matches_three_floats(kw_facet_normal, get_current_line(m, ls))
    THEN m
    ELSE handle_error_with_line_index(m, ERROR,
           "facet normal <float> <float> <float>", <<>>, get_current_line(m, ls))

\* line 234: m.normal is the local normal
assign_normal(m, values) ==
    IF float_fails(values) THEN raise(m, "ValueError", NoMessage)
    ELSE [m EXCEPT !.normal = values, !.vertices = <<>>]

parse_normal(m, ls) ==
    IF Raised(m) THEN m
    ELSE assign_normal(m, floats(Tail(Tail(split(get_current_line(m, ls))))))

\* lines 248-249
check_vertex(m, ls) ==
    IF Raised(m) \/ matches_three_floats(kw_vertex, get_current_line(m, ls))
    THEN m
    ELSE handle_error_with_line_index(m, ERROR,
           "vertex <unsigned float> <unsigned float> <unsigned float>", <<>>,
           get_current_line(m, ls))

\* line 252: m.vertex is the local vertex
assign_vertex(m, values) ==
    IF float_fails(values) THEN raise(m, "ValueError", NoMessage)
    ELSE [m EXCEPT !.vertex = values]

parse_vertex(m, ls) ==
    IF Raised(m) THEN m
    ELSE assign_vertex(m, floats(Tail(split(get_current_line(m, ls)))))

\* lines 254-257, after the go_to_next_line of line 253
check_vertex_sign(m) ==
    IF Raised(m) THEN m
    ELSE [(IF any_negative(m.vertex)
           THEN handle_error_with_line_index(m, soft_severity,
                  "Not all vertice coordinates have positive values", <<>>, <<>>)
           ELSE m)
            EXCEPT !.vertices = Append(m.vertices, m.vertex)]

\* lines 248-257: one iteration of the loop over the vertices
ascii_vertex(m, ls) ==
    check_vertex_sign(
        go_to_next_line(
            parse_vertex(check_vertex(need_current_line(m, ls), ls), ls), ls))

\* lines 261-262
check_facet_winding(m) ==
    IF Raised(m)
       \/ is_counterclockwise(m.vertices[1], m.vertices[2], m.vertices[3], m.normal)
    THEN m
    ELSE handle_error_with_line_index(m, soft_severity,
           "Vertices of this facet are not ordered counterclockwise", <<>>, <<>>)

\* lines 232-238: facet normal and outer loop
ascii_facet_head(m, ls) ==
    expect_line(
        go_to_next_line(
            parse_normal(check_facet_normal(need_current_line(m, ls), ls), ls), ls),
        ls, kw_outer_loop, "outer loop")

\* lines 240-259: n iterations of the vertex loop
RECURSIVE ascii_vertices(_, _, _)
ascii_vertices(m, ls, n) ==
    IF n = 0 THEN m ELSE ascii_vertices(ascii_vertex(m, ls), ls, n - 1)

\* lines 232-269: one iteration of the facet loop
ascii_facet(m, ls) ==
    expect_line(
        expect_line(
            check_facet_winding(ascii_vertices(ascii_facet_head(m, ls), ls, 3)),
            ls, kw_endloop, "endloop"),
        ls, kw_endfacet, "endfacet")

\* line 270-271
check_endsolid(m, ls) ==
    IF Raised(m) \/ startswith(get_current_line(m, ls), kw_endsolid) THEN m
    ELSE handle_error_with_line_index(m, ERROR, "endsolid", <<>>,
                                      get_current_line(m, ls))

\* lines 272-274
check_endsolid_name(m, ls) ==
    IF Raised(m) \/ m.solid_name = <<>>
       \/ kw_endsolid \o <<32>> \o m.solid_name = get_current_line(m, ls)
    THEN m
    ELSE handle_error_with_line_index(m, soft_severity, "endsolid {solid_name}",
                                      m.solid_name, get_current_line(m, ls))

\* lines 270-275: the footer
ascii_footer(m, ls) ==
    go_to_next_line(
        check_endsolid_name(check_endsolid(need_current_line(m, ls), ls), ls), ls)

(***************************************************************************)
(* The files validated.  A binary file is an 80-byte header, a count and   *)
(* 50-byte records; a textual file is a header line, facets of seven lines *)
(* and a footer line.  Each is then damaged, or left alone.                *)
(***************************************************************************)
MaxTriangles == 2
MaxFacets == 2
MaxCalls == 2

RECURSIVE Flatten(_)
Flatten(ss) == IF ss = <<>> THEN <<>> ELSE Head(ss) \o Flatten(Tail(ss))

\* sequences over S of length 0..n
SeqsUpTo(S, n) == UNION {[1..k -> S] : k \in 0..n}

Repeat(c, n) == [p \in 1..n |-> c]

pack_I(n) == <<n % 256, (n \div 256) % 256, (n \div 65536) % 256, n \div 16777216>>

\* single-precision encodings of 0.0, 1.0, -1.0 and a NaN
f_0 == <<0, 0, 0, 0>>
f_1 == <<0, 0, 128, 63>>
f_m1 == <<0, 0, 128, 191>>
f_nan == <<0, 0, 192, 127>>

RecordKinds == {"good", "cw", "neg", "negcw", "nan_normal", "nan_vertex",
                "nan_neg", "attr", "zero"}

\* the 50 bytes of a record: normal, vertex1, vertex2, vertex3, attribute
RecordBytes(kind) ==
    LET origin == f_0 \o f_0 \o f_0
        ex == f_1 \o f_0 \o f_0
        ey == f_0 \o f_1 \o f_0
        ez == f_0 \o f_0 \o f_1
        mx == f_m1 \o f_0 \o f_0
        nx == f_nan \o f_0 \o f_0
    IN CASE kind = "good" -> ez \o origin \o ex \o ey \o <<0, 0>>
         [] kind = "cw" -> ez \o origin \o ey \o ex \o <<0, 0>>
         [] kind = "neg" -> ez \o mx \o ex \o ey \o <<0, 0>>
         [] kind = "negcw" -> ez \o mx \o ey \o ex \o <<0, 0>>
         [] kind = "nan_normal" -> (f_nan \o f_0 \o f_1) \o origin \o ex \o ey \o <<0, 0>>
         [] kind = "nan_vertex" -> ez \o nx \o ex \o ey \o <<0, 0>>
         [] kind = "nan_neg" -> ez \o mx \o nx \o ey \o <<0, 0>>
         [] kind = "attr" -> ez \o origin \o ex \o ey \o <<1, 0>>
         [] kind = "zero" -> Repeat(0, 50)

Framings == {"exact", "count_high", "count_low", "trailing", "cut", "short"}

BinaryBytes(records, framing) ==
    LET n == Len(records)
        declared == CASE framing = "count_high" -> n + 1
                      [] framing = "count_low" -> n - 1
                      [] OTHER -> n
        whole == Repeat(32, 80) \o pack_I(declared)
                   \o Flatten([p \in 1..n |-> RecordBytes(records[p])])
    IN CASE framing = "trailing" -> whole \o <<0>>
         [] framing = "cut" -> SubSeq(whole, 1, Len(whole) - 1)
         [] framing = "short" -> SubSeq(whole, 1, 82)
         [] OTHER -> whole

\* "x", "y", two names that give `solid <name>` / `endsolid <name>` files of 84
\* and 134 bytes with a matching count at bytes 80..83, and the bytes of an
\* e acute in UTF-8, of a no-break space in UTF-8, of an e acute in Latin-1
NameText(name) ==
    CASE name = "x" -> <<120>>
      [] name = "y" -> <<121>>
      [] name = "utf8" -> <<195, 169>>
      [] name = "nbsp" -> <<194, 160>>
      [] name = "latin1" -> <<233>>
      [] name = "sized84" -> Repeat(97, 30) \o pack_I(0)
      [] name = "sized134" -> Repeat(97, 5) \o pack_I(1) \o Repeat(0, 50)
      [] OTHER -> <<>>

HeaderLine(name) ==
    IF name = "" THEN kw_solid ELSE kw_solid \o <<32>> \o NameText(name)

FooterLine(name) ==
    IF name = "" THEN kw_endsolid ELSE kw_endsolid \o <<32>> \o NameText(name)

FacetKinds == {"good", "sci", "frac", "tenths", "neg", "cw"}

\* "vertex a b c" from three tokens
VertexLine(a, b, c) == kw_vertex \o a \o <<32>> \o b \o <<32>> \o c

\* the seven lines of a facet
FacetLines(kind) ==
    LET zero == <<48>>
        one == <<49>>
        minus == <<45, 49>>
        normal == kw_facet_normal \o <<48, 32, 48, 32, 49>>
        origin == VertexLine(zero, zero, zero)
        ex == VertexLine(one, zero, zero)
        ey == VertexLine(zero, one, zero)
        mx == VertexLine(minus, zero, zero)
        tail == <<kw_endloop, kw_endfacet>>
    IN CASE kind = "good" -> <<normal, kw_outer_loop, origin, ex, ey>> \o tail
         [] kind = "cw" -> <<normal, kw_outer_loop, origin, ey, ex>> \o tail
         [] kind = "neg" -> <<normal, kw_outer_loop, mx, ex, ey>> \o tail
         [] kind = "sci" ->
              << kw_facet_normal \o <<45, 48, 32, 48, 46, 48, 32, 49, 69, 48>>,
                 kw_outer_loop,
                 VertexLine(<<48, 46, 48>>, zero, zero),
                 VertexLine(<<49, 46, 53>>, <<46, 48>>, zero),
                 VertexLine(zero, <<50, 101, 45, 49>>, <<48, 101, 43, 49>>)>> \o tail
         \* vertices 0 0 0 / 0.5 0 0 / 0 0.25 0
         [] kind = "frac" ->
              << normal, kw_outer_loop, origin,
                 VertexLine(<<48, 46, 53>>, zero, zero),
                 VertexLine(zero, <<48, 46, 50, 53>>, zero)>> \o tail
         \* normal 1e-1 2e-1 -3e-1 on vertices 0 1 1 / 1 0 1 / 0 2 0, whose
         \* edges have the cross product 1 1 1: the doubles 0.1 + 0.2 - 0.3
         [] kind = "tenths" ->
              << kw_facet_normal \o <<49, 101, 45, 49, 32, 50, 101, 45, 49, 32,
                                       45, 51, 101, 45, 49>>,
                 kw_outer_loop,
                 VertexLine(zero, one, one),
                 VertexLine(one, zero, one),
                 VertexLine(zero, <<50>>, zero)>> \o tail

\* the lines of a well-formed file
TextLines(header, facets, footer) ==
    <<HeaderLine(header)>>
      \o Flatten([p \in 1..Len(facets) |-> FacetLines(facets[p])])
      \o <<FooterLine(footer)>>

\* "vertex - 0 0": the pattern of line 248 accepts a bare sign
BadVertexLine == VertexLine(<<45>>, <<48>>, <<48>>)

\* every line preceded by a tab and followed by a space, every space doubled
Spaced(line) ==
    <<9>> \o Flatten([p \in 1..Len(line) |->
                        IF line[p] = 32 THEN <<32, 32>> ELSE <<line[p]>>]) \o <<32>>

Damaged(ls, damage) ==
    CASE damage.op = "truncate" -> SubSeq(ls, 1, damage.at)
      [] damage.op = "blank" ->
           SubSeq(ls, 1, damage.at) \o <<<<>>>> \o SubSeq(ls, damage.at + 1, Len(ls))
      [] damage.op = "bad_vertex" -> [ls EXCEPT ![damage.at] = BadVertexLine]
      [] damage.op = "spaced" -> [p \in 1..Len(ls) |-> Spaced(ls[p])]
      [] OTHER -> ls

\* the lines joined: each followed by \n, or by \r\n, or the last by nothing
TextBytes(ls, damage) ==
    LET eol == IF damage.op = "crlf" THEN <<13, 10>> ELSE <<10>>
        body == Flatten([p \in 1..Len(ls) |-> ls[p] \o eol])
    IN IF damage.op = "no_final_newline" /\ ls # <<>>
       THEN SubSeq(body, 1, Len(body) - 1) ELSE body

NoDamage == [op |-> "none", at |-> 0]

Input(family, records, framing, header, facets, footer, damage) ==
    [family |-> family, records |-> records, framing |-> framing,
     header |-> header, facets |-> facets, footer |-> footer, damage |-> damage]

BinaryInputs ==
    {Input("binary", r, "exact", "", <<>>, "", NoDamage) :
        r \in SeqsUpTo(RecordKinds, MaxTriangles)}
    \cup {in \in {Input("binary", r, fr, "", <<>>, "", NoDamage) :
                       r \in SeqsUpTo({"good"}, MaxTriangles),
                       fr \in Framings \ {"exact"}} :
            in.framing = "count_low" => in.records # <<>>}

\* well-formed files, with deviations in the facets and in the endsolid name
PlainTextInputs ==
    {Input("text", <<>>, "", h, f, ft, NoDamage) :
        h \in {"x", ""}, f \in SeqsUpTo(FacetKinds, MaxFacets), ft \in {"x", "y", ""}}

\* the files `solid <name>` / `endsolid <name>` whose size matches a count
SizedTextInputs ==
    {Input("text", <<>>, "", n, <<>>, n, [op |-> "no_final_newline", at |-> 0]) :
        n \in {"x", "sized84", "sized134"}}

\* well-formed files of good facets, damaged
DamagedTextInputs ==
    UNION {
      LET n == 2 + 7 * k
      IN {Input("text", <<>>, "", "x", Repeat("good", k), "x", d) :
            d \in {[op |-> o, at |-> 0] : o \in {"spaced", "crlf", "no_final_newline"}}
                  \cup {[op |-> "truncate", at |-> a] : a \in 0..(n - 1)}
                  \cup {[op |-> "blank", at |-> a] : a \in 0..n}
                  \cup {[op |-> "bad_vertex", at |-> a] : a \in 1..n}}
      : k \in 0..MaxFacets}

\* files `solid <name>` / `endsolid <name>` with bytes that are no ASCII
EncodedTextInputs ==
    {Input("text", <<>>, "", n, <<>>, n, NoDamage) : n \in {"utf8", "nbsp", "latin1"}}

Inputs ==
    BinaryInputs \cup PlainTextInputs \cup SizedTextInputs \cup DamagedTextInputs
      \cup EncodedTextInputs

Bytes(in) ==
    IF in.family = "binary" THEN BinaryBytes(in.records, in.framing)
    ELSE TextBytes(Damaged(TextLines(in.header, in.facets, in.footer), in.damage),
                   in.damage)

(***************************************************************************)
(* validate_stl_file, lines 278-317, step by step.                         *)
(***************************************************************************)
\* the report of lines 295-303 (pass: version and counts in the detail note)
\* and of lines 307-316 (fail: the text of the exception)
PassOutcome(ver, errors, warnings) ==
    [eventOutcomeInformation |-> "pass", code |-> SUCCESS_CODE, version |-> ver,
     result |-> <<errors, warnings>>, message |-> NoMessage, exception |-> ""]

FailOutcome(message) ==
    [eventOutcomeInformation |-> "fail", code |-> ERROR_CODE, version |-> "",
     result |-> <<>>, message |-> message, exception |-> "STLValidatorException"]

\* an exception that `except STLValidatorException` does not catch leaves
\* validate_stl_file: no report is printed
Uncaught(type) ==
    [eventOutcomeInformation |-> "", code |-> ERROR_CODE, version |-> "",
     result |-> <<>>, message |-> NoMessage, exception |-> type]

\* the globals as the statements of the current step find them
Globals ==
    [error_count |-> error_count, warning_count |-> warning_count,
     line_index |-> line_index, events |-> events, raised |-> NoException,
     solid_name |-> solid_name, normal |-> <<>>, vertex |-> <<>>,
     vertices |-> <<>>]

\* the globals after a step that ended in m; an exception ends the call
Continue(m, next) ==
    /\ error_count' = m.error_count
    /\ warning_count' = m.warning_count
    /\ line_index' = m.line_index
    /\ events' = m.events
    /\ IF Raised(m)
       THEN /\ pc' = "done"
            /\ outcomes' = Append(outcomes,
                 IF m.raised.type = "STLValidatorException"
                 THEN FailOutcome(m.raised.message)
                 ELSE Uncaught(m.raised.type))
       ELSE /\ pc' = next
            /\ outcomes' = outcomes

Init ==
    /\ input \in Inputs
    /\ file = Bytes(input)
    /\ strict_mode \in BOOLEAN
    /\ output_detailed_warnings \in BOOLEAN
    /\ warning_count = 0
    /\ error_count = 0
    /\ first_error_message = ""
    /\ line_index = 0
    /\ lines = <<>>
    /\ pc = "call"
    /\ version = ""
    /\ triangle_count = 0
    /\ i = 0
    /\ solid_name = <<>>
    /\ total_facet_count = 0
    /\ facets_done = 0
    /\ events = <<>>
    /\ outcomes = <<>>

\* line 281: the detector chooses the validator
Detect ==
    /\ pc = "call"
    /\ pc' = IF is_binary_stl(file) THEN "binary_open" ELSE "ascii_open"
    /\ UNCHANGED <<input, file, strict_mode, output_detailed_warnings,
                   warning_count, error_count, first_error_message, line_index,
                   lines, version, triangle_count, i, solid_name,
                   total_facet_count, facets_done, events, outcomes>>

\* lines 170-172: the header is skipped and the count read
BinaryOpen ==
    /\ pc = "binary_open"
    /\ LET count_bytes == read(file, 80, 4)
       IN IF Len(count_bytes) # 4
          THEN /\ Continue(raise(Globals, "struct.error", NoMessage), "done")
               /\ UNCHANGED triangle_count
          ELSE /\ Continue(Globals, "binary_loop")
               /\ triangle_count' = unpack_I(count_bytes)
    /\ i' = 0
    /\ UNCHANGED <<input, file, strict_mode, output_detailed_warnings,
                   first_error_message, lines, version, solid_name,
                   total_facet_count, facets_done>>

\* the record left m: the loop goes on with the next one unless m raised
RecordDone(m) ==
    /\ Continue(m, "binary_loop")
    /\ i' = IF Raised(m) THEN i ELSE i + 1

\* lines 174-192: one record
BinaryRecord ==
    /\ pc = "binary_loop"
    /\ i < triangle_count
    /\ RecordDone(validate_binary_record(Globals, file, i))
    /\ UNCHANGED <<input, file, strict_mode, output_detailed_warnings,
                   first_error_message, lines, version, triangle_count,
                   solid_name, total_facet_count, facets_done>>

\* the loop of line 174 ends; line 283
BinaryReturn ==
    /\ pc = "binary_loop"
    /\ i >= triangle_count
    /\ version' = "binary"
    /\ pc' = "report"
    /\ UNCHANGED <<input, file, strict_mode, output_detailed_warnings,
                   warning_count, error_count, first_error_message, line_index,
                   lines, triangle_count, i, solid_name, total_facet_count,
                   facets_done, events, outcomes>>

\* the header left m: line 226 counts the facets of the lines ls
HeaderDone(m, ls) ==
    /\ Continue(m, "ascii_facets")
    /\ solid_name' = m.solid_name
    /\ total_facet_count' = IF Raised(m) THEN 0 ELSE facet_count(ls)

\* lines 207-226: the lines are read, the header checked, the facets counted
AsciiHeader ==
    /\ pc = "ascii_open"
    /\ IF ~ decodes(file)
       THEN /\ Continue(raise(Globals, "UnicodeDecodeError", NoMessage), "done")
            /\ UNCHANGED <<lines, solid_name, total_facet_count>>
       ELSE /\ lines' = read_lines(file)
            /\ HeaderDone(ascii_header(Globals, lines'), lines')
    /\ facets_done' = 0
    /\ UNCHANGED <<input, file, strict_mode, output_detailed_warnings,
                   first_error_message, version, triangle_count, i>>

\* the facet left m: the loop goes on with the next one unless m raised
FacetDone(m) ==
    /\ Continue(m, "ascii_facets")
    /\ facets_done' = IF Raised(m) THEN facets_done ELSE facets_done + 1

\* lines 231-269: one facet
AsciiFacet ==
    /\ pc = "ascii_facets"
    /\ facets_done < total_facet_count
    /\ FacetDone(ascii_facet(Globals, lines))
    /\ UNCHANGED <<input, file, strict_mode, output_detailed_warnings,
                   first_error_message, lines, version, triangle_count, i,
                   solid_name, total_facet_count>>

\* the footer left m: line 286 unless m raised
FooterDone(m) ==
    /\ Continue(m, "report")
    /\ version' = IF Raised(m) THEN version ELSE "ASCII"

\* the loop of line 231 ends; lines 270-275 and 286
AsciiFooter ==
    /\ pc = "ascii_facets"
    /\ facets_done >= total_facet_count
    /\ FooterDone(ascii_footer(Globals, lines))
    /\ UNCHANGED <<input, file, strict_mode, output_detailed_warnings,
                   first_error_message, lines, triangle_count, i, solid_name,
                   total_facet_count, facets_done>>

\* lines 288-304: the validator returned
Report ==
    /\ pc = "report"
    /\ pc' = "done"
    /\ outcomes' = Append(outcomes,
         IF error_count > 0
         THEN FailOutcome(Message("", 0, "Validation failed",
                                  <<error_count, warning_count>>, <<>>))
         ELSE PassOutcome(version, error_count, warning_count))
    /\ UNCHANGED <<input, file, strict_mode, output_detailed_warnings,
                   warning_count, error_count, first_error_message, line_index,
                   lines, version, triangle_count, i, solid_name,
                   total_facet_count, facets_done, events>>

\* validate_stl_file is called again on the same file: its locals are new,
\* the module's globals are what the last call left
CallAgain ==
    /\ pc = "done"
    /\ Len(outcomes) < MaxCalls
    /\ pc' = "call"
    /\ version' = ""
    /\ triangle_count' = 0
    /\ i' = 0
    /\ solid_name' = <<>>
    /\ total_facet_count' = 0
    /\ facets_done' = 0
    /\ events' = <<>>
    /\ UNCHANGED <<input, file, strict_mode, output_detailed_warnings,
                   warning_count, error_count, first_error_message, line_index,
                   lines, outcomes>>

Next ==
    \/ Detect
    \/ BinaryOpen
    \/ BinaryRecord
    \/ BinaryReturn
    \/ AsciiHeader
    \/ AsciiFacet
    \/ AsciiFooter
    \/ Report
    \/ CallAgain

Spec == Init /\ [][Next]_vars

(***************************************************************************)
(* What the claims speak of.                                               *)
(***************************************************************************)
\* the call in progress, or just completed, is the first one: the counters
\* were zero when it began
FirstCall == Len(outcomes) = 0 \/ (Len(outcomes) = 1 /\ pc = "done")

\* the first call has produced its outcome
FirstCallDone == Len(outcomes) = 1 /\ pc = "done"

Last == outcomes[Len(outcomes)]

\* the file length equals 80 + 4 + 50 * T, T the little-endian unsigned
\* 32-bit integer at bytes 80..83
SizeMatches ==
    /\ Len(file) >= 84
    /\ (Len(file) - 84) % 50 = 0
    /\ (Len(file) - 84) \div 50
         = file[81] + 256 * file[82] + 65536 * file[83] + 16777216 * file[84]

SoftTexts ==
    {"Not all vertices of this facet have positive values",
     "Vertices of this facet are not ordered counterclockwise",
     "Not all vertice coordinates have positive values",
     "endsolid {solid_name}"}

ErrorEvents == {k \in 1..Len(events) : events[k].type = "ERROR"}
WarningEvents == {k \in 1..Len(events) : events[k].type = "WARNING"}

\* a binary file as the detector wants it
FramedBinary == input.family = "binary" /\ input.framing = "exact"

\* the warnings a record earns in tolerant mode: one for a negative vertex
\* coordinate, one for a winding that is not counterclockwise
RecordWarnings(kind) ==
    CASE kind = "good" -> 0
      [] kind \in {"cw", "neg", "zero"} -> 1
      [] kind = "negcw" -> 2
      [] OTHER -> 0

RECURSIVE SumWarnings(_)
SumWarnings(records) ==
    IF records = <<>> THEN 0
    ELSE RecordWarnings(Head(records)) + SumWarnings(Tail(records))

SoftRecordKinds == {"good", "cw", "neg", "zero", "negcw"}
CorruptRecordKinds == {"nan_normal", "nan_vertex", "nan_neg", "attr"}

\* a file whose only deviations are soft violations
SoftOnly ==
    \/ /\ FramedBinary
       /\ \A k \in 1..Len(input.records) : input.records[k] \in SoftRecordKinds
       /\ \E k \in 1..Len(input.records) : input.records[k] # "good"
    \/ /\ input.family = "text"
       /\ input.damage.op = "none"
       /\ input.header = "x"
       /\ \/ \E k \in 1..Len(input.facets) : input.facets[k] \in {"neg", "cw"}
          \/ input.footer # "x"

\* a textual file of a header line, facets of seven grammar lines with
\* non-negative counterclockwise vertices, and a footer that echoes the header
WellFormedText ==
    /\ input.family = "text"
    /\ \A k \in 1..Len(input.facets) : input.facets[k] \in {"good", "sci", "frac"}
    /\ input.footer = input.header
    /\ input.damage.op \in {"none", "spaced", "crlf", "no_final_newline", "blank"}

\* the header line carries a name: a character that is no whitespace
NamedHeader ==
    /\ decodes(NameText(input.header))
    /\ strip(decode(NameText(input.header))) # <<>>

(***************************************************************************)
(* C1: the detector answers true exactly when the file length is           *)
(* 80 + 4 + 50 * T for the little-endian count T at bytes 80..83 (never    *)
(* for a file below 84 bytes), the binary validator runs exactly when it   *)
(* answered true and the ASCII validator otherwise; a passing file is      *)
(* reported with version "binary" exactly when its size matches, whatever  *)
(* its content.                                                            *)
(***************************************************************************)
C1_DetectionAndRouting ==
    /\ is_binary_stl(file) <=> SizeMatches
    /\ Len(file) < 84 => ~ is_binary_stl(file)
    /\ pc \in {"binary_open", "binary_loop"} => SizeMatches
    /\ pc \in {"ascii_open", "ascii_facets"} => ~ SizeMatches
    /\ version = "binary" => SizeMatches
    /\ version = "ASCII" => ~ SizeMatches
    /\ \A k \in 1..Len(outcomes) :
         outcomes[k].eventOutcomeInformation = "pass"
           => (outcomes[k].version = "binary" <=> SizeMatches)
    /\ \A k \in 1..Len(events) :
         events[k].message.where = "position" => SizeMatches

\* a textual file whose size matches passed as a binary file
C1_Witness ==
    /\ pc = "done"
    /\ input.family = "text"
    /\ Last.eventOutcomeInformation = "pass"
    /\ Last.version = "binary"

(***************************************************************************)
(* C2: a soft violation (negative vertex coordinate, winding that is not   *)
(* counterclockwise, endsolid name that does not echo the solid name) is   *)
(* an error in strict mode and a warning in tolerant mode; an error ends   *)
(* the call with a fail outcome, a warning adds one to warning_count and   *)
(* the validation goes on; a file whose only deviations are soft fails in  *)
(* strict mode and passes with at least one warning in tolerant mode.      *)
(***************************************************************************)
C2_SoftViolationDispatch ==
    /\ \A k \in 1..Len(events) :
         events[k].message.expected \in SoftTexts
           => (events[k].type = "ERROR" <=> strict_mode)
    /\ \A k \in ErrorEvents :
         /\ k = Len(events)
         /\ pc = "done"
         /\ Last.eventOutcomeInformation = "fail"
         /\ Last.message = events[k].message
    /\ FirstCall => /\ warning_count = Cardinality(WarningEvents)
                    /\ error_count = Cardinality(ErrorEvents)
    /\ (FirstCallDone /\ SoftOnly) =>
         IF strict_mode
         THEN /\ Last.eventOutcomeInformation = "fail"
              /\ Last.message.expected \in SoftTexts
              /\ error_count = 1
         ELSE /\ Last.eventOutcomeInformation = "pass"
              /\ Last.result[1] = 0
              /\ Last.result[2] >= 1

\* tolerant mode: an endsolid line without the name, the file passes with a warning
C2_Witness ==
    /\ FirstCallDone
    /\ ~ strict_mode
    /\ SoftOnly
    /\ input.family = "text"
    /\ input.footer = ""
    /\ \E k \in WarningEvents : events[k].message.expected = "endsolid {solid_name}"
    /\ Last.eventOutcomeInformation = "pass"
    /\ Last.result[2] >= 1

(***************************************************************************)
(* C3: a file routed to the binary validator that has a record with a NaN  *)
(* among its twelve floats or a non-zero attribute field fails, in strict  *)
(* mode and in tolerant mode.                                              *)
(***************************************************************************)
C3_CorruptionAlwaysFails ==
    (/\ pc = "done"
     /\ FramedBinary
     /\ \E k \in 1..Len(input.records) : input.records[k] \in CorruptRecordKinds)
    => /\ Last.eventOutcomeInformation = "fail"
       /\ Last.code = ERROR_CODE

\* tolerant mode, a NaN in a normal: the file fails
C3_Witness ==
    /\ FirstCallDone
    /\ ~ strict_mode
    /\ FramedBinary
    /\ \E k \in 1..Len(input.records) : input.records[k] = "nan_normal"
    /\ Last.eventOutcomeInformation = "fail"

(***************************************************************************)
(* C4: two calls of validate_stl_file in succession on the same file with  *)
(* the same flags give the same outcome (pass or fail, reported error and  *)
(* warning counts, message, encoding).                                     *)
(***************************************************************************)
C4_Idempotent == Len(outcomes) >= 2 => outcomes[2] = outcomes[1]

(***************************************************************************)
(* C5: a well-formed textual file passes in strict mode with no error,     *)
(* and with no warning when it is `solid x` followed by `endsolid x`       *)
(* without blank lines.                                                    *)
(***************************************************************************)
C5_WellFormedTextPasses ==
    (FirstCallDone /\ strict_mode /\ WellFormedText)
    => /\ Last.eventOutcomeInformation = "pass"
       /\ Last.result[1] = 0
       /\ (input.facets = <<>> /\ NamedHeader /\ input.damage.op # "blank")
            => Last.result[2] = 0

(***************************************************************************)
(* C5, amended: a well-formed textual file that the detector takes for     *)
(* textual (its length is not 80 + 4 + 50 * T for the count T at bytes     *)
(* 80..83) and whose bytes decode in the encoding of the locale passes in  *)
(* strict mode with no error, and with no warning when it is `solid x`     *)
(* followed by `endsolid x` without blank lines.                           *)
(***************************************************************************)
C5_WellFormedTextPassesWhenTakenForText ==
    (FirstCallDone /\ strict_mode /\ WellFormedText /\ ~ SizeMatches
       /\ decodes(file))
    => /\ Last.eventOutcomeInformation = "pass"
       /\ Last.version = "ASCII"
       /\ Last.result[1] = 0
       /\ (input.facets = <<>> /\ NamedHeader /\ input.damage.op # "blank")
            => Last.result[2] = 0

\* strict mode: a named file of MaxFacets facets passed
C5_Witness ==
    /\ FirstCallDone
    /\ strict_mode
    /\ WellFormedText
    /\ ~ SizeMatches
    /\ input.header = "x"
    /\ Len(input.facets) = MaxFacets
    /\ facets_done = MaxFacets
    /\ Last.eventOutcomeInformation = "pass"

(***************************************************************************)
(* C6: in a call that began with zeroed counters the first error ends the  *)
(* call: error_count is 0 or 1, it is 1 only once the call has ended in a  *)
(* fail outcome whose message is that of the one error, which is the last  *)
(* diagnostic of the call, and a pass outcome carries the error count 0.   *)
(***************************************************************************)
C6_AbortOnFirstError ==
    FirstCall =>
      /\ error_count \in {0, 1}
      /\ error_count = 1 =>
           /\ pc = "done"
           /\ Last.eventOutcomeInformation = "fail"
      /\ (pc = "done" /\ Last.eventOutcomeInformation = "fail") =>
           /\ error_count = 1
           /\ ErrorEvents = {Len(events)}
           /\ Last.message = events[Len(events)].message
      /\ (pc = "done" /\ Last.eventOutcomeInformation = "pass") =>
           /\ error_count = 0
           /\ Last.result[1] = 0
           /\ ErrorEvents = {}

\* a call that counted warnings and then failed on its one error
C6_Witness ==
    /\ FirstCallDone
    /\ Last.eventOutcomeInformation = "fail"
    /\ error_count = 1
    /\ warning_count >= 1
    /\ Len(events) >= 2

(***************************************************************************)
(* C7: a validator that runs out of input (a textual file cut short: empty,*)
(* only `solid`, cut inside a facet or before `endsolid`) ends the call    *)
(* with a fail outcome through the hard-error path; no other exception     *)
(* leaves validate_stl_file.                                               *)
(***************************************************************************)
C7_OutOfInputIsHardError ==
    (pc = "done" /\ input.family = "text" /\ input.damage.op = "truncate")
    => /\ Last.eventOutcomeInformation = "fail"
       /\ Last.exception = "STLValidatorException"

(***************************************************************************)
(* C8: in the binary validator, for the first record i with a NaN among    *)
(* its floats, when the earlier records raise no error and record i has no *)
(* negative vertex coordinate, the call fails with the error "File         *)
(* contains NaN values in normal or vertex coordinates" at the byte offset *)
(* 84 + 50 * i, in strict mode as in tolerant mode.                        *)
(***************************************************************************)
C8_NaNReportedAsNaN ==
    \A k \in 1..Len(input.records) :
      (/\ FirstCallDone
       /\ FramedBinary
       /\ input.records[k] \in {"nan_normal", "nan_vertex"}
       /\ \A j \in 1..(k - 1) :
            input.records[j] \in (IF strict_mode THEN {"good"} ELSE SoftRecordKinds))
      => /\ Last.eventOutcomeInformation = "fail"
         /\ Last.message.where = "position"
         /\ Last.message.at = 84 + 50 * (k - 1)
         /\ Last.message.expected
              = "File contains NaN values in normal or vertex coordinates"

(***************************************************************************)
(* C9: every diagnostic of the binary validator, error or warning, is      *)
(* located by the byte offset 84 + 50 * i of the record it was raised for, *)
(* never by a line number.                                                 *)
(***************************************************************************)
C9_BinaryDiagnosticsByOffset ==
    FramedBinary =>
      \A k \in 1..Len(events) :
        /\ events[k].message.where = "position"
        /\ events[k].message.at >= 84
        /\ events[k].message.at <= 84 + 50 * i
        /\ (events[k].message.at - 84) % 50 = 0

(***************************************************************************)
(* C10: in tolerant mode, a binary file of T records without NaN and with  *)
(* zero attribute fields is examined record by record in index order; when *)
(* the call began with zeroed counters, after i records warning_count is   *)
(* the number of those records with a negative vertex coordinate plus the  *)
(* number of those that are not counterclockwise, and on completion the    *)
(* outcome is pass with error count 0 and that warning count over all T    *)
(* records, with and without the verbose-warnings flag.                    *)
(***************************************************************************)
C10_TolerantAccumulation ==
    (/\ FirstCall
     /\ ~ strict_mode
     /\ FramedBinary
     /\ \A k \in 1..Len(input.records) : input.records[k] \in SoftRecordKinds)
    => /\ pc = "binary_loop" =>
            /\ triangle_count = Len(input.records)
            /\ i <= triangle_count
            /\ warning_count = SumWarnings(SubSeq(input.records, 1, i))
            /\ error_count = 0
       /\ pc \in {"report", "done"} =>
            /\ i = Len(input.records)
            /\ warning_count = SumWarnings(input.records)
            /\ error_count = 0
       /\ pc = "done" =>
            /\ Last.eventOutcomeInformation = "pass"
            /\ Last.result = <<0, SumWarnings(input.records)>>

\* without the verbose flag, MaxTriangles records were examined and one of
\* them earned two warnings
C10_Witness ==
    /\ FirstCallDone
    /\ ~ strict_mode
    /\ ~ output_detailed_warnings
    /\ FramedBinary
    /\ Len(input.records) = MaxTriangles
    /\ \A k \in 1..Len(input.records) : input.records[k] \in SoftRecordKinds
    /\ \E k \in 1..Len(input.records) : input.records[k] = "negcw"
    /\ Last.eventOutcomeInformation = "pass"
    /\ Last.result[2] >= 2

=============================================================================
